---- MODULE Spec2Model ----
\* Model of the statistics sensor (homeassistant/components/statistics/sensor.py):
\* the bounded sample buffer, ingestion, age purge, the self-rescheduling
\* purge timer, the start-up backfill and the recompute cycle.
EXTENDS Integers, Sequences, FiniteSets, TLC

\* ---------------------------------------------------------------- bounds
MaxBuf == 2          \* largest sampling_size explored
MaxAgeCfg == 2       \* largest max_age explored (seconds)
IngestSpan == 1      \* readings arrive during the first IngestSpan + 1 clock readings
MaxHist == 2         \* largest number of rows the history store returns
MaxPending == 1      \* largest number of queued recompute tasks

StatLen == 3         \* longest buffer the characteristics are evaluated on
StatVal == 3         \* numeric samples are 1 .. StatVal
StatSpan == 1        \* sample timestamps are 0 .. StatSpan
QuantLen == 5        \* most samples of a buffer that only quantiles reads
StepSpan == 2        \* newest timestamp of a buffer that only binary average_step reads
MaxRtKeys == 3       \* real-time sensor descriptions explored, the first of RT_SENSORS

\* The clock starts one unit after the epoch, so that history can precede it.
LastIngest == 1 + IngestSpan
MaxTime == LastIngest + MaxAgeCfg + 1

\* ------------------------------------------------------ program constants
STATE_UNAVAILABLE == "unavailable"
STATE_UNKNOWN == "unknown"
STAT_AVERAGE_LINEAR == "average_linear"
STAT_AVERAGE_STEP == "average_step"
STAT_AVERAGE_TIMELESS == "average_timeless"
STAT_CHANGE == "change"
STAT_CHANGE_SAMPLE == "change_sample"
STAT_CHANGE_SECOND == "change_second"
STAT_COUNT == "count"
STAT_DATETIME_NEWEST == "datetime_newest"
STAT_DATETIME_OLDEST == "datetime_oldest"
STAT_DISTANCE_95P == "distance_95_percent_of_values"
STAT_DISTANCE_99P == "distance_99_percent_of_values"
STAT_DISTANCE_ABSOLUTE == "distance_absolute"
STAT_MEAN == "mean"
STAT_MEDIAN == "median"
STAT_NOISINESS == "noisiness"
STAT_QUANTILES == "quantiles"
STAT_STANDARD_DEVIATION == "standard_deviation"
STAT_TOTAL == "total"
STAT_VALUE_MAX == "value_max"
STAT_VALUE_MIN == "value_min"
STAT_VARIANCE == "variance"

STATS_NUMERIC_SUPPORT ==
    { STAT_AVERAGE_LINEAR, STAT_AVERAGE_STEP, STAT_AVERAGE_TIMELESS,
      STAT_CHANGE_SAMPLE, STAT_CHANGE_SECOND, STAT_CHANGE, STAT_COUNT,
      STAT_DATETIME_NEWEST, STAT_DATETIME_OLDEST, STAT_DISTANCE_95P,
      STAT_DISTANCE_99P, STAT_DISTANCE_ABSOLUTE, STAT_MEAN, STAT_MEDIAN,
      STAT_NOISINESS, STAT_QUANTILES, STAT_STANDARD_DEVIATION, STAT_TOTAL,
      STAT_VALUE_MAX, STAT_VALUE_MIN, STAT_VARIANCE }

STATS_BINARY_SUPPORT ==
    { STAT_AVERAGE_STEP, STAT_AVERAGE_TIMELESS, STAT_COUNT, STAT_MEAN }

STATS_NOT_A_NUMBER ==
    { STAT_DATETIME_NEWEST, STAT_DATETIME_OLDEST, STAT_QUANTILES }

DEFAULT_PRECISION == 2
DEFAULT_QUANTILE_INTERVALS == 4
DEFAULT_QUANTILE_METHOD == "exclusive"

\* ------------------------------------------------------------ encodings
\* Python None of an optional integer / string / handle.
NoAge == -1              \* samples_max_age is None
NoHandle == -1           \* _update_listener is None
NoUnit == "<None>"       \* unit of measurement is None
NoneState == "<None>"    \* State.state is None
None == << >>            \* an optional number that is None
Some(x) == << x >>       \* an optional number that is set

\* The characteristics the state machine is run with.
ModelNumericStats == { STAT_CHANGE_SECOND }
ModelBinaryStats == { STAT_MEAN }

\* State strings seen on the bus and in the history store.
LiveStates ==
    { STATE_UNAVAILABLE, STATE_UNKNOWN, NoneState, "on", "off", "1", "abc" }
HistStates == { STATE_UNAVAILABLE, "on", "1" }
SourceUnits == { NoUnit, "W" }

VARIABLES
    is_binary,            \* self.is_binary
    state_characteristic, \* self._state_characteristic
    samples_max_buffer_size, \* self._samples_max_buffer_size
    samples_max_age,      \* self._samples_max_age (NoAge for None)
    quantile_intervals,   \* self._quantile_intervals
    quantile_method,      \* self._quantile_method
    config,               \* the platform configuration of the sensor
    setup,                \* how far the platform setup has come
    states,               \* self.states
    ages,                 \* self.ages
    available,            \* self._available
    unit_of_measurement,  \* self._unit_of_measurement
    attributes,           \* self.attributes
    value,                \* self._value, in hundredths
    update_listener,      \* self._update_listener (handle of a registration)
    timers,               \* the scheduler: pending point-in-time registrations
    pending,              \* recompute tasks queued by async_schedule_update_ha_state(True)
    listening,            \* the state-change listener is registered
    backfill,             \* position of the _initialize_from_database task
    fetch_time,           \* utcnow() read by _fetch_states_from_database
    now,                  \* dt_util.utcnow()
    last,                 \* the step just taken: operation, input, escaped error
    rt_data,                 \* TibberRtDataCoordinator.rt_data
    added_sensors,        \* TibberRtDataCoordinator._added_sensors
    rt_entities,          \* entities handed to async_add_entities, in order
    device_updates_handler \* _add_sensors is registered as a listener

cfg == << is_binary, state_characteristic, samples_max_buffer_size,
         samples_max_age, quantile_intervals, quantile_method, config, setup,
         rt_data, added_sensors, rt_entities, device_updates_handler >>
vars == << is_binary, state_characteristic, samples_max_buffer_size,
           samples_max_age, quantile_intervals, quantile_method, config,
           setup, states, ages, available, unit_of_measurement,
           attributes, value, update_listener, timers, pending, listening,
           backfill, fetch_time, now, last, rt_data, added_sensors, rt_entities,
           device_updates_handler >>

\* ------------------------------------------------------------- helpers
\* float(new_state.state): the number, or None when float() raises ValueError.
ParseFloat(s) ==
    CASE s = "1" -> Some(1)
      [] s = "2" -> Some(2)
      [] s = "3" -> Some(3)
      [] OTHER -> None

\* A deque that ignores maxlen.
DequeAppendUnbounded(d, x, maxlen) == Append(d, x)

\* A full deque that makes room by dropping its newest element.
DequeAppendKeepsFront(d, x, maxlen) ==
    IF Len(d) >= maxlen THEN Append(SubSeq(d, 1, Len(d) - 1), x) ELSE Append(d, x)

\* deque(maxlen=n).append(x): the oldest element is dropped when full.
DequeAppend(d, x, maxlen) ==
    IF Len(d) >= maxlen THEN Tail(Append(d, x)) ELSE Append(d, x)

\* round(a / b, 0) for b > 0, ties to even as Python's round does.
RoundHalfEven(a, b) ==
    LET fl == a \div b
        r == a % b
    IN  IF 2 * r < b THEN fl
        ELSE IF 2 * r > b THEN fl + 1
        ELSE IF fl % 2 = 0 THEN fl ELSE fl + 1

\* round(a / b, digits), as a multiple of 10^-digits.
Round(a, b, digits) == RoundHalfEven((10 ^ digits) * a, b)

\* round(a / b, 2) of the attribute ratios, in hundredths.
Round2(a, b) == Round(a, b, 2)

\* _derive_unit_of_measurement: the unit for a reading's declared unit.
\* A unit derivation that gives the variance the source's unit.
DeriveUnitWithPlainVariance(binary, characteristic, base_unit) ==
    IF binary /\ characteristic \in
           { STAT_AVERAGE_STEP, STAT_AVERAGE_TIMELESS, STAT_MEAN }
        THEN "%"
    ELSE IF base_unit = NoUnit \/ base_unit = ""
        THEN NoUnit
    ELSE IF characteristic \in STATS_NOT_A_NUMBER \cup { STAT_COUNT }
        THEN NoUnit
    ELSE IF characteristic = STAT_CHANGE_SAMPLE
        THEN base_unit \o "/sample"
    ELSE IF characteristic = STAT_CHANGE_SECOND
        THEN base_unit \o "/s"
    ELSE base_unit

DeriveUnitOfMeasurement(binary, characteristic, base_unit) ==
    IF binary /\ characteristic \in
           { STAT_AVERAGE_STEP, STAT_AVERAGE_TIMELESS, STAT_MEAN }
        THEN "%"
    ELSE IF base_unit = NoUnit \/ base_unit = ""
        THEN NoUnit
    ELSE IF characteristic \in
           { STAT_AVERAGE_LINEAR, STAT_AVERAGE_STEP, STAT_AVERAGE_TIMELESS,
             STAT_CHANGE, STAT_DISTANCE_95P, STAT_DISTANCE_99P,
             STAT_DISTANCE_ABSOLUTE, STAT_MEAN, STAT_MEDIAN, STAT_NOISINESS,
             STAT_STANDARD_DEVIATION, STAT_TOTAL, STAT_VALUE_MAX,
             STAT_VALUE_MIN }
        THEN base_unit
    ELSE IF characteristic \in STATS_NOT_A_NUMBER
        THEN NoUnit
    ELSE IF characteristic = STAT_COUNT
        THEN NoUnit
    ELSE IF characteristic = STAT_VARIANCE
        THEN base_unit \o "²"
    ELSE IF characteristic = STAT_CHANGE_SAMPLE
        THEN base_unit \o "/sample"
    ELSE IF characteristic = STAT_CHANGE_SECOND
        THEN base_unit \o "/s"
    ELSE "<unbound>"

\* The part of the sensor that _add_state_to_queue reads and writes.
Queue ==
    [ states |-> states, ages |-> ages, available |-> available,
      valid |-> attributes.source_value_valid, unit |-> unit_of_measurement,
      err |-> "none" ]

\* An unavailable reading that is recorded as an invalid value.
MarkUnavailableAsInvalid(q) ==
    [q EXCEPT !.available = FALSE, !.valid = Some(FALSE)]

\* An unavailable reading that also clears the unit.
MarkUnavailableClearsUnit(q) ==
    [q EXCEPT !.available = FALSE, !.valid = None, !.unit = NoUnit]

\* _add_state_to_queue, the STATE_UNAVAILABLE branch.
MarkUnavailable(q) ==
    [q EXCEPT !.available = FALSE, !.valid = None]

\* An unknown reading that does not touch the availability flag.
MarkUnknownKeepsAvailability(q) ==
    [q EXCEPT !.valid = Some(FALSE)]

\* _add_state_to_queue, the branch for STATE_UNKNOWN and None.
MarkUnknown(q) ==
    [q EXCEPT !.available = TRUE, !.valid = Some(FALSE)]

\* A parse failure that has already recorded the reading's timestamp.
ParseFailureKeepsTimestamp(q, ts) ==
    [q EXCEPT !.available = TRUE, !.valid = Some(FALSE),
              !.ages = DequeAppend(@, ts, samples_max_buffer_size)]

\* _add_state_to_queue, the except ValueError branch; ts is the timestamp of
\* the reading that failed to parse.
ParseFailure(q, ts) ==
    [q EXCEPT !.available = TRUE, !.valid = Some(FALSE)]

\* An assert that fails before the availability flag is written.
AssertFailureBeforeAvailability(q) ==
    [q EXCEPT !.err = "AssertionError"]

\* _add_state_to_queue, the assert on a binary state that is neither "on"
\* nor "off": AssertionError is not a ValueError and leaves the method.
AssertFailure(q) ==
    [q EXCEPT !.available = TRUE, !.err = "AssertionError"]

\* _add_state_to_queue, the admission of the parsed value v.
Admit(q, v, ts, u) ==
    [q EXCEPT !.available = TRUE,
              !.states = DequeAppend(@, v, samples_max_buffer_size),
              !.ages = DequeAppend(@, ts, samples_max_buffer_size),
              !.valid = Some(TRUE),
              !.unit = DeriveUnitOfMeasurement(is_binary, state_characteristic, u)]

\* _add_state_to_queue(new_state) applied to q; st, ts, u are new_state.state,
\* new_state.last_updated and the reading's unit attribute.  err names the
\* exception that leaves the method, "none" when it returns.
AddStateToQueue(q, st, ts, u) ==
    IF st = STATE_UNAVAILABLE THEN MarkUnavailable(q)
    ELSE IF st \in { STATE_UNKNOWN, NoneState } THEN MarkUnknown(q)
    ELSE IF is_binary
        THEN IF st \in { "on", "off" }
                THEN Admit(q, st = "on", ts, u)
                ELSE AssertFailure(q)
    ELSE IF ParseFloat(st) # None
        THEN Admit(q, ParseFloat(st)[1], ts, u)
        ELSE ParseFailure(q, ts)

\* for state in reversed(states): self._add_state_to_queue(state), where
\* rows is already oldest-first; an exception ends the loop.
RECURSIVE Replay(_, _)
Replay(q, rows) ==
    IF rows = << >> \/ q.err # "none" THEN q
    ELSE Replay(AddStateToQueue(q, rows[1].state, rows[1].ts, rows[1].unit),
                Tail(rows))

\* The state of the last row the replay loop passed to _add_state_to_queue
\* before it ended; seen when it passed none.
RECURSIVE LastReplayed(_, _, _)
LastReplayed(q, rows, seen) ==
    IF rows = << >> \/ q.err # "none" THEN seen
    ELSE LastReplayed(AddStateToQueue(q, rows[1].state, rows[1].ts, rows[1].unit),
                      Tail(rows), rows[1].state)

\* reversed(states)
RECURSIVE Reversed(_)
Reversed(s) ==
    IF s = << >> THEN << >> ELSE Append(Reversed(Tail(s)), Head(s))

\* A purge that tests the front once (if in place of while).
PurgeOneOldState(st, ag, t, max_age) ==
    IF ag # << >> /\ (t - ag[1]) > max_age
        THEN [ states |-> Tail(st), ages |-> Tail(ag) ]
        ELSE [ states |-> st, ages |-> ag ]

\* _purge_old_states(max_age) at clock reading t: the buffers afterwards.
RECURSIVE PurgeOldStates(_, _, _, _)
PurgeOldStates(st, ag, t, max_age) ==
    IF ag # << >> /\ (t - ag[1]) > max_age
        THEN PurgeOldStates(Tail(st), Tail(ag), t, max_age)
        ELSE [ states |-> st, ages |-> ag ]

\* A next-purge instant that is also computed for an empty buffer.
NextToPurgeTimestampWhenEmpty(ag) ==
    IF samples_max_age # NoAge /\ samples_max_age # 0
        THEN Some((IF ag # << >> THEN ag[1] ELSE now) + samples_max_age)
        ELSE None

\* A next-purge instant that is computed whenever the buffer is not empty,
\* adding nothing when max_age is None.
NextToPurgeTimestampWithoutMaxAge(ag) ==
    IF ag # << >>
        THEN Some(ag[1] + (IF samples_max_age = NoAge THEN 0 ELSE samples_max_age))
        ELSE None

\* _next_to_purge_timestamp over the given ages; None when nothing to schedule.
\* A timedelta of zero is falsy, like None.
NextToPurgeTimestamp(ag) ==
    IF ag # << >> /\ samples_max_age # NoAge /\ samples_max_age # 0
        THEN Some(ag[1] + samples_max_age)
        ELSE None

\* Number of True in a boolean deque: self.states.count(True).
RECURSIVE CountTrue(_)
CountTrue(st) ==
    IF st = << >> THEN 0
    ELSE (IF Head(st) = TRUE THEN 1 ELSE 0) + CountTrue(Tail(st))

\* ------------------------------------------------- the characteristics
\* Values are integers and timestamps whole seconds, so every result is an
\* exact quotient; the bounds keep the quotients away from the decimal ties
\* on which binary floating point and exact arithmetic round differently.

\* The result a / b of a division, exact; b = 0 is the division that raises
\* ZeroDivisionError.  coef and root serve the results that are
\* coef / 100 times the square root of a / b.
Frac(a, b) ==
    IF b >= 0 THEN [ num |-> a, den |-> b, coef |-> 100, root |-> FALSE ]
              ELSE [ num |-> -a, den |-> -b, coef |-> 100, root |-> FALSE ]

\* sum(s)
RECURSIVE SumUpTo(_, _)
SumUpTo(s, k) == IF k = 0 THEN 0 ELSE s[k] + SumUpTo(s, k - 1)

Sum(s) == SumUpTo(s, Len(s))

\* max(s) and min(s) of a non-empty sequence
MaxOf(s) == CHOOSE x \in { s[i] : i \in 1 .. Len(s) } :
                \A i \in 1 .. Len(s) : s[i] <= x

MinOf(s) == CHOOSE x \in { s[i] : i \in 1 .. Len(s) } :
                \A i \in 1 .. Len(s) : s[i] >= x

Abs(x) == IF x < 0 THEN -x ELSE x

\* sorted(s)
RECURSIVE Insert(_, _)
Insert(x, s) ==
    IF s = << >> THEN << x >>
    ELSE IF x <= Head(s) THEN << x >> \o s
    ELSE << Head(s) >> \o Insert(x, Tail(s))

RECURSIVE Sorted(_)
Sorted(s) == IF s = << >> THEN << >> ELSE Insert(Head(s), Sorted(Tail(s)))

\* (self.ages[-1] - self.ages[0]).total_seconds()
AgeRangeSeconds(ag) == ag[Len(ag)] - ag[1]

StatAverageLinear(st, ag) ==
    LET n == Len(st)
        twice_area == Sum([ i \in 1 .. n - 1 |->
                              (st[i + 1] + st[i]) * (ag[i + 1] - ag[i]) ])
    IN  IF n >= 2 THEN Some(Frac(twice_area, 2 * AgeRangeSeconds(ag))) ELSE None

\* A step average that holds each value back to the sample before it.
StatAverageStepRight(st, ag) ==
    LET n == Len(st)
        area == Sum([ i \in 1 .. n - 1 |-> st[i + 1] * (ag[i + 1] - ag[i]) ])
    IN  IF n >= 2 THEN Some(Frac(area, AgeRangeSeconds(ag))) ELSE None

StatAverageStep(st, ag) ==
    LET n == Len(st)
        area == Sum([ i \in 1 .. n - 1 |-> st[i] * (ag[i + 1] - ag[i]) ])
    IN  IF n >= 2 THEN Some(Frac(area, AgeRangeSeconds(ag))) ELSE None

\* A mean that divides by one less than the number of values.
StatMeanOverOneLess(st) ==
    IF Len(st) > 0 THEN Some(Frac(Sum(st), Len(st) - 1)) ELSE None

\* statistics.mean
StatMean(st) ==
    IF Len(st) > 0 THEN Some(Frac(Sum(st), Len(st))) ELSE None

StatAverageTimeless(st) == StatMean(st)

StatChange(st) ==
    IF Len(st) > 0 THEN Some(Frac(st[Len(st)] - st[1], 1)) ELSE None

\* A change per sample that divides by the number of samples.
StatChangePerReading(st) ==
    IF Len(st) > 1 THEN Some(Frac(st[Len(st)] - st[1], Len(st))) ELSE None

StatChangeSample(st) ==
    IF Len(st) > 1 THEN Some(Frac(st[Len(st)] - st[1], Len(st) - 1)) ELSE None

StatChangeSecond(st, ag) ==
    IF Len(st) > 1 /\ AgeRangeSeconds(ag) > 0
        THEN Some(Frac(st[Len(st)] - st[1], AgeRangeSeconds(ag)))
        ELSE None

StatCount(st) == Some(Frac(Len(st), 1))

StatDatetimeNewest(st, ag) == IF Len(st) > 0 THEN Some(ag[Len(ag)]) ELSE None

StatDatetimeOldest(st, ag) == IF Len(st) > 0 THEN Some(ag[1]) ELSE None

\* A variance that divides the squared deviations by the number of values.
PopulationVariance(st) ==
    LET n == Len(st)
        total == Sum([ i \in 1 .. n |-> (n * st[i] - Sum(st)) * (n * st[i] - Sum(st)) ])
    IN  Frac(total, n * n * n)

\* statistics.variance: the squared deviations from the mean, summed and
\* divided by n - 1; with c = Sum / n each deviation is (n * x - Sum) / n.
SampleVariance(st) ==
    LET n == Len(st)
        total == Sum([ i \in 1 .. n |-> (n * st[i] - Sum(st)) * (n * st[i] - Sum(st)) ])
    IN  Frac(total, n * n * (n - 1))

StatVariance(st) ==
    IF Len(st) >= 2 THEN Some(SampleVariance(st)) ELSE None

\* statistics.stdev: the square root of statistics.variance.
StatStandardDeviation(st) ==
    IF Len(st) >= 2
        THEN Some([ SampleVariance(st) EXCEPT !.root = TRUE ])
        ELSE None

\* 2 * 1.96 * stdev
StatDistance95P(st) ==
    IF Len(st) >= 2
        THEN Some([ SampleVariance(st) EXCEPT !.root = TRUE, !.coef = 392 ])
        ELSE None

\* 2 * 2.58 * stdev
StatDistance99P(st) ==
    IF Len(st) >= 2
        THEN Some([ SampleVariance(st) EXCEPT !.root = TRUE, !.coef = 516 ])
        ELSE None

StatDistanceAbsolute(st) ==
    IF Len(st) > 0 THEN Some(Frac(MaxOf(st) - MinOf(st), 1)) ELSE None

\* statistics.median: the middle of the sorted values, or the mean of the
\* two middle ones.
StatMedian(st) ==
    LET n == Len(st)
        d == Sorted(st)
    IN  IF n = 0 THEN None
        ELSE IF n % 2 = 1 THEN Some(Frac(d[(n \div 2) + 1], 1))
        ELSE Some(Frac(d[n \div 2] + d[(n \div 2) + 1], 2))

StatNoisiness(st) ==
    LET n == Len(st)
        diff_sum == Sum([ i \in 1 .. n - 1 |-> Abs(st[i + 1] - st[i]) ])
    IN  IF n >= 2 THEN Some(Frac(diff_sum, n - 1)) ELSE None

\* statistics.quantiles(data, n=k, method=...): the k - 1 cut points, each
\* the quotient of the returned numerator by k.
Quantiles(data, k, method) ==
    LET d == Sorted(data)
        ld == Len(d)
        inclusive(i) ==
            LET m == ld - 1
                j == (i * m) \div k
                delta == (i * m) % k
            IN  d[j + 1] * (k - delta) + d[j + 2] * delta
        exclusive(i) ==
            LET m == ld + 1
                j0 == (i * m) \div k
                j == IF j0 < 1 THEN 1 ELSE IF j0 > ld - 1 THEN ld - 1 ELSE j0
                delta == i * m - j * k
            IN  d[j] * (k - delta) + d[j + 1] * delta
    IN  [ i \in 1 .. k - 1 |->
            IF method = "inclusive" THEN inclusive(i) ELSE exclusive(i) ]

\* Quantiles that are also published when the buffer holds exactly as many
\* samples as there are intervals.
StatQuantilesAtIntervals(st) ==
    IF Len(st) >= quantile_intervals
        THEN Some([ i \in 1 .. quantile_intervals - 1 |->
                      Round(Quantiles(st, quantile_intervals, quantile_method)[i],
                            quantile_intervals, DEFAULT_PRECISION) ])
        ELSE None

StatQuantiles(st) ==
    IF Len(st) > quantile_intervals
        THEN Some([ i \in 1 .. quantile_intervals - 1 |->
                      Round(Quantiles(st, quantile_intervals, quantile_method)[i],
                            quantile_intervals, DEFAULT_PRECISION) ])
        ELSE None

\* A total that is the empty sum, 0, on an empty buffer.
StatTotalZeroWhenEmpty(st) == Some(Frac(Sum(st), 1))

StatTotal(st) == IF Len(st) > 0 THEN Some(Frac(Sum(st), 1)) ELSE None

StatValueMax(st) == IF Len(st) > 0 THEN Some(Frac(MaxOf(st), 1)) ELSE None

StatValueMin(st) == IF Len(st) > 0 THEN Some(Frac(MinOf(st), 1)) ELSE None

StatBinaryAverageStep(st, ag) ==
    LET n == Len(st)
        on_seconds == Sum([ i \in 1 .. n - 1 |->
                              IF st[i] = TRUE THEN ag[i + 1] - ag[i] ELSE 0 ])
    IN  IF n >= 2 THEN Some(Frac(100 * on_seconds, AgeRangeSeconds(ag))) ELSE None

\* A binary mean that is a fraction of 1, not a percentage.
StatBinaryMeanAsFraction(st) ==
    IF Len(st) > 0 THEN Some(Frac(CountTrue(st), Len(st))) ELSE None

StatBinaryMean(st) ==
    IF Len(st) > 0 THEN Some(Frac(100 * CountTrue(st), Len(st))) ELSE None

StatBinaryAverageTimeless(st) == StatBinaryMean(st)

StatBinaryCount(st) == Some(Frac(Len(st), 1))

\* self._state_characteristic_fn(): the function __init__ selects by name,
\* with the binary_ prefix for a binary source.
StateCharacteristicFn(st, ag) ==
    IF is_binary
        THEN CASE state_characteristic = STAT_AVERAGE_STEP -> StatBinaryAverageStep(st, ag)
               [] state_characteristic = STAT_AVERAGE_TIMELESS -> StatBinaryAverageTimeless(st)
               [] state_characteristic = STAT_COUNT -> StatBinaryCount(st)
               [] state_characteristic = STAT_MEAN -> StatBinaryMean(st)
        ELSE CASE state_characteristic = STAT_AVERAGE_LINEAR -> StatAverageLinear(st, ag)
               [] state_characteristic = STAT_AVERAGE_STEP -> StatAverageStep(st, ag)
               [] state_characteristic = STAT_AVERAGE_TIMELESS -> StatAverageTimeless(st)
               [] state_characteristic = STAT_CHANGE -> StatChange(st)
               [] state_characteristic = STAT_CHANGE_SAMPLE -> StatChangeSample(st)
               [] state_characteristic = STAT_CHANGE_SECOND -> StatChangeSecond(st, ag)
               [] state_characteristic = STAT_COUNT -> StatCount(st)
               [] state_characteristic = STAT_DATETIME_NEWEST -> StatDatetimeNewest(st, ag)
               [] state_characteristic = STAT_DATETIME_OLDEST -> StatDatetimeOldest(st, ag)
               [] state_characteristic = STAT_DISTANCE_95P -> StatDistance95P(st)
               [] state_characteristic = STAT_DISTANCE_99P -> StatDistance99P(st)
               [] state_characteristic = STAT_DISTANCE_ABSOLUTE -> StatDistanceAbsolute(st)
               [] state_characteristic = STAT_MEAN -> StatMean(st)
               [] state_characteristic = STAT_MEDIAN -> StatMedian(st)
               [] state_characteristic = STAT_NOISINESS -> StatNoisiness(st)
               [] state_characteristic = STAT_QUANTILES -> StatQuantiles(st)
               [] state_characteristic = STAT_STANDARD_DEVIATION -> StatStandardDeviation(st)
               [] state_characteristic = STAT_TOTAL -> StatTotal(st)
               [] state_characteristic = STAT_VALUE_MAX -> StatValueMax(st)
               [] state_characteristic = STAT_VALUE_MIN -> StatValueMin(st)
               [] state_characteristic = STAT_VARIANCE -> StatVariance(st)

\* The least h in lo .. hi with x < (2h + 1)^2 * q.
RECURSIVE LeastAbove(_, _, _, _)
LeastAbove(x, q, lo, hi) ==
    IF lo >= hi THEN lo
    ELSE LET mid == (lo + hi) \div 2
         IN  IF x < (2 * mid + 1) * (2 * mid + 1) * q
                THEN LeastAbove(x, q, lo, mid)
                ELSE LeastAbove(x, q, mid + 1, hi)

\* round(c * sqrt(p / q), digits) as a multiple of 10^-digits, c = coef / 100:
\* the h with (h - 1/2)^2 <= s^2 * p / q < (h + 1/2)^2, s = c * 10^digits.
\* The root of a sample variance is below twice the spread of the values, so
\* it is searched below hi.
RoundSqrt(p, q, coef, digits, hi) ==
    LET s == (coef * (10 ^ digits)) \div 100
    IN  LeastAbove(4 * s * s * p, q, 0, hi)

\* round(value, self._precision) of a characteristic's result r.
RoundResult(r, st, digits) ==
    IF r.root
        THEN RoundSqrt(r.num, r.den, r.coef, digits,
                       2 * ((r.coef * (10 ^ digits)) \div 100) * (MaxOf(st) - MinOf(st)) + 1)
        ELSE Round(r.num, r.den, digits)

\* The characteristic's function divides by zero on this buffer.
UpdateValueRaises(st, ag) ==
    LET r == StateCharacteristicFn(st, ag)
    IN  /\ r # None
        /\ state_characteristic \notin STATS_NOT_A_NUMBER
        /\ r[1].den = 0

\* _update_value: self._state_characteristic_fn() followed by the rounding
\* to the sensor's precision, the default one, so a number is in hundredths.
\* round(None) raises TypeError, which is suppressed, and the value is None.
UpdateValue(st, ag) ==
    LET r == StateCharacteristicFn(st, ag)
    IN  IF r = None THEN None
        ELSE IF state_characteristic \in STATS_NOT_A_NUMBER THEN r
        ELSE Some(RoundResult(r[1], st, DEFAULT_PRECISION))

\* ------------------------------------------------------------ the machine
\* No real-time coordinator exists: nothing received, nothing added.
NoCoordinator ==
    /\ rt_data = [ errors |-> FALSE, live |-> None ]
    /\ added_sensors = { }
    /\ rt_entities = << >>
    /\ device_updates_handler = FALSE

\* The timestamps of T as the history store orders them, newest first.
RECURSIVE NewestFirst(_)
NewestFirst(T) ==
    IF T = { } THEN << >>
    ELSE LET m == CHOOSE x \in T : \A y \in T : y <= x
         IN  << m >> \o NewestFirst(T \ { m })

\* Rows the history store can return to a query made at clock reading t:
\* at most MaxHist and at most sampling_size rows (limit=), newest first
\* (descending=True), each a state change with its own last_updated, none
\* newer than t and, with max_age set, none older than t - max_age
\* (start_date); without max_age the query starts at the epoch, 0.
HistoryRows(t) ==
    LET lo == IF samples_max_age = NoAge \/ t - samples_max_age < 0
                 THEN 0 ELSE t - samples_max_age
        lim == IF samples_max_buffer_size < MaxHist
                  THEN samples_max_buffer_size ELSE MaxHist
        stamps == { NewestFirst(T) : T \in { U \in SUBSET (lo .. t) :
                                               Cardinality(U) <= lim } }
    IN  UNION { { [ i \in 1 .. Len(d) |->
                      [ state |-> ss[i], unit |-> "W", ts |-> d[i] ] ] :
                  ss \in [1 .. Len(d) -> HistStates] } : d \in stamps }

\* StatisticsSensor.__init__ on a validated configuration, followed by the
\* recompute that update_before_add=True queues when the entity is added.
Init ==
    /\ is_binary \in BOOLEAN
    /\ state_characteristic \in
          IF is_binary THEN ModelBinaryStats ELSE ModelNumericStats
    /\ samples_max_buffer_size \in { 1, MaxBuf }
    /\ samples_max_age \in { NoAge, 0, MaxAgeCfg }
    /\ quantile_intervals = DEFAULT_QUANTILE_INTERVALS
    /\ quantile_method = DEFAULT_QUANTILE_METHOD
    /\ config = [ binary |-> is_binary,
                  state_characteristic |-> state_characteristic,
                  samples_max_buffer_size |-> samples_max_buffer_size,
                  max_age |-> samples_max_age ]
    /\ setup = "added"
    /\ NoCoordinator
    /\ states = << >>
    /\ ages = << >>
    /\ available = FALSE
    /\ unit_of_measurement = NoUnit
    /\ attributes = [ age_coverage_ratio |-> None,
                      buffer_usage_ratio |-> None,
                      source_value_valid |-> None ]
    /\ value = None
    /\ update_listener = NoHandle
    /\ timers = { }
    /\ pending = 1
    /\ listening = FALSE
    /\ backfill = "idle"
    /\ fetch_time = 0
    /\ now = 1
    /\ last = [ op |-> "init", st |-> "-", err |-> "none", at |-> -1 ]

\* The clock advances.
Tick ==
    /\ now < MaxTime
    /\ now' = now + 1
    /\ last' = [ op |-> "tick", st |-> "-", err |-> "none", at |-> -1 ]
    /\ UNCHANGED << cfg, states, ages, available, unit_of_measurement,
                    attributes, value, update_listener, timers, pending,
                    listening, backfill, fetch_time >>

\* async_stats_sensor_startup: register the state listener and, when the
\* recorder is loaded, create the _initialize_from_database task.
Startup ==
    /\ ~listening
    /\ listening' = TRUE
    /\ \E recorder \in BOOLEAN :
          backfill' = IF recorder THEN "created" ELSE "idle"
    /\ last' = [ op |-> "startup", st |-> "-", err |-> "none", at |-> -1 ]
    /\ UNCHANGED << cfg, states, ages, available, unit_of_measurement,
                    attributes, value, update_listener, timers, pending,
                    fetch_time, now >>

\* The listener is registered, and the model admits one more reading.
ListenerEnabled ==
    /\ listening
    /\ now <= LastIngest
    /\ pending < MaxPending

\* async_stats_sensor_state_listener for an event that carries new_state.
\* An exception leaving _add_state_to_queue also leaves the listener, so the
\* recompute is not scheduled then.
ListenerStep(st, q) ==
    /\ states' = q.states
    /\ ages' = q.ages
    /\ available' = q.available
    /\ unit_of_measurement' = q.unit
    /\ attributes' = [attributes EXCEPT !.source_value_valid = q.valid]
    /\ pending' = IF q.err = "none" THEN pending + 1 ELSE pending
    /\ last' = [ op |-> "listener", st |-> st, err |-> q.err, at |-> -1 ]
    /\ UNCHANGED << cfg, value, update_listener, timers, listening, backfill,
                    fetch_time, now >>

\* The listener step for a reading with state st of a source with unit u,
\* where q is what _add_state_to_queue leaves.
StateListenerFor(st, u) ==
    /\ ListenerEnabled
    /\ ListenerStep(st, AddStateToQueue(Queue, st, now, u))

\* The listener step for any reading; readings that leave the same q give
\* the same step.
StateListener ==
    /\ ListenerEnabled
    /\ \E st \in LiveStates :
          \E q \in { AddStateToQueue(Queue, st, now, u) : u \in SourceUnits } :
              ListenerStep(st, q)

\* async_stats_sensor_state_listener for an event without new_state.
StateListenerNoState ==
    /\ listening
    /\ now <= LastIngest
    /\ last' = [ op |-> "listener", st |-> "<missing>", err |-> "none", at |-> -1 ]
    /\ UNCHANGED << cfg, states, ages, available, unit_of_measurement,
                    attributes, value, update_listener, timers, pending,
                    listening, backfill, fetch_time, now >>

\* _fetch_states_from_database runs in the executor and reads the clock.
FetchStatesFromDatabase ==
    /\ backfill = "created"
    /\ now <= LastIngest
    /\ backfill' = "fetched"
    /\ fetch_time' = now
    /\ last' = [ op |-> "fetch", st |-> "-", err |-> "none", at |-> -1 ]
    /\ UNCHANGED << cfg, states, ages, available, unit_of_measurement,
                    attributes, value, update_listener, timers, pending,
                    listening, now >>

\* The history result has arrived, and the model admits one more replay.
BackfillEnabled ==
    /\ backfill = "fetched"
    /\ now <= LastIngest
    /\ pending < MaxPending

\* _initialize_from_database resumes with the rows: replay them oldest
\* first, then schedule a recompute (not reached when the replay raises).
BackfillStep(r) ==
    /\ states' = r.q.states
    /\ ages' = r.q.ages
    /\ available' = r.q.available
    /\ unit_of_measurement' = r.q.unit
    /\ attributes' = [attributes EXCEPT !.source_value_valid = r.q.valid]
    /\ pending' = IF r.q.err = "none" THEN pending + 1 ELSE pending
    /\ last' = [ op |-> "backfill", st |-> r.st, err |-> r.q.err, at |-> -1 ]
    /\ backfill' = "done"
    /\ UNCHANGED << cfg, value, update_listener, timers, listening,
                    fetch_time, now >>

\* What the replay of the history result rows leaves: the queue q and the
\* state st of the last row it passed to _add_state_to_queue.
ReplayOutcome(rows) ==
    [ q |-> Replay(Queue, Reversed(rows)),
      st |-> LastReplayed(Queue, Reversed(rows), "-") ]

\* The backfill step for the history result rows.
InitializeFromDatabaseFor(rows) ==
    /\ BackfillEnabled
    /\ BackfillStep(ReplayOutcome(rows))

\* The backfill step for any history result; results with the same outcome
\* give the same step.
InitializeFromDatabase ==
    /\ BackfillEnabled
    /\ \E r \in { ReplayOutcome(rows) : rows \in HistoryRows(fetch_time) } :
          BackfillStep(r)

\* async_track_point_in_utc_time returns a new handle: the smallest one no
\* registration held when async_update was entered.
FreshHandle ==
    CHOOSE h \in 0 .. Cardinality(timers) :
        \A t \in timers : t.id # h

\* A cancellation that leaves the registration in the scheduler.
CancelNothing(h) == timers

\* The scheduler after the registration with handle h is cancelled.
Cancel(h) == { t \in timers : t.id # h }

\* async_update: purge, attributes, value, then re-arm the purge timer.
\* With max_age = timedelta(0) and samples left, the age coverage ratio
\* divides by zero and the exception ends the update there; a division by
\* zero in the characteristic's function ends it before the value is stored.
AsyncUpdate ==
    /\ pending > 0
    /\ pending' = pending - 1
    /\ LET b == IF samples_max_age # NoAge
                   THEN PurgeOldStates(states, ages, now, samples_max_age)
                   ELSE [ states |-> states, ages |-> ages ]
           n == Len(b.states)
           usage == Some(Round2(n, samples_max_buffer_size))
           zerodiv == n >= 1 /\ samples_max_age = 0
           coverage == IF n >= 1 /\ samples_max_age # NoAge
                          THEN Some(Round2(b.ages[n] - b.ages[1], samples_max_age))
                          ELSE None
           next == NextToPurgeTimestamp(b.ages)
       IN  /\ states' = b.states
           /\ ages' = b.ages
           /\ IF zerodiv
                 THEN /\ attributes' = [attributes EXCEPT !.buffer_usage_ratio = usage]
                      /\ last' = [ op |-> "update", st |-> "-",
                                   err |-> "ZeroDivisionError", at |-> now ]
                      /\ UNCHANGED << value, update_listener, timers >>
                 ELSE IF UpdateValueRaises(b.states, b.ages)
                 THEN /\ attributes' = [attributes EXCEPT
                                          !.buffer_usage_ratio = usage,
                                          !.age_coverage_ratio = coverage]
                      /\ last' = [ op |-> "update", st |-> "-",
                                   err |-> "ZeroDivisionError", at |-> now ]
                      /\ UNCHANGED << value, update_listener, timers >>
                 ELSE /\ attributes' = [attributes EXCEPT
                                          !.buffer_usage_ratio = usage,
                                          !.age_coverage_ratio = coverage]
                      /\ value' = UpdateValue(b.states, b.ages)
                      /\ last' = [ op |-> "update", st |-> "-", err |-> "none", at |-> now ]
                      /\ IF next # None
                            THEN LET kept == IF update_listener # NoHandle
                                                THEN Cancel(update_listener)
                                                ELSE timers
                                 IN  /\ timers' = kept \cup
                                            { [ id |-> FreshHandle, at |-> next[1] ] }
                                     /\ update_listener' = FreshHandle
                            ELSE UNCHANGED << update_listener, timers >>
    /\ UNCHANGED << cfg, available, unit_of_measurement, listening, backfill,
                    fetch_time, now >>

\* A wake-up that fires and queues the recompute but leaves the handle set.
ScheduledUpdateKeepsHandle ==
    /\ pending < MaxPending
    /\ \E t \in timers :
          /\ t.at <= now
          /\ timers' = timers \ { t }
          /\ last' = [ op |-> "timer", st |-> "-", err |-> "none", at |-> t.at ]
    /\ pending' = pending + 1
    /\ UNCHANGED << cfg, states, ages, available, unit_of_measurement,
                    attributes, value, update_listener, listening, backfill,
                    fetch_time, now >>

\* _scheduled_update: a pending wake-up whose instant has come fires once,
\* queues a recompute and clears the handle.
ScheduledUpdate ==
    /\ pending < MaxPending
    /\ \E t \in timers :
          /\ t.at <= now
          /\ timers' = timers \ { t }
          /\ last' = [ op |-> "timer", st |-> "-", err |-> "none", at |-> t.at ]
    /\ pending' = pending + 1
    /\ update_listener' = NoHandle
    /\ UNCHANGED << cfg, states, ages, available, unit_of_measurement,
                    attributes, value, listening, backfill, fetch_time, now >>

Next ==
    \/ Tick
    \/ Startup
    \/ StateListener
    \/ StateListenerNoState
    \/ FetchStatesFromDatabase
    \/ InitializeFromDatabase
    \/ AsyncUpdate
    \/ ScheduledUpdate

Spec == Init /\ [][Next]_vars

\* The scheduler runs due timers and queued tasks, and time passes.
LiveSpec ==
    Spec /\ WF_vars(Tick) /\ WF_vars(AsyncUpdate) /\ WF_vars(ScheduledUpdate)

\* ------------------------------------------- the characteristics alone
\* Timestamps of a buffer of n samples.  Live readings and the rows of one
\* history result are each in time order, and the replay is merged once, so
\* the timestamps descend at most once from one sample to the next.
\* Timestamps of a buffer of n samples within 0 .. StepSpan, the newest of
\* them StepSpan, with at most one descent.
StepAges(n) ==
    { ag \in [1 .. n -> 0 .. StepSpan] :
        /\ \E i \in 1 .. n : ag[i] = StepSpan
        /\ Cardinality({ i \in 1 .. n - 1 : ag[i] > ag[i + 1] }) <= 1 }

StatAges(n) ==
    { ag \in [1 .. n -> 0 .. StatSpan] :
        Cardinality({ i \in 1 .. n - 1 : ag[i] > ag[i + 1] }) <= 1 }

\* A sensor of any supported characteristic that has admitted up to StatLen
\* samples, the last of them with unit "W", and has two recomputes queued,
\* none run yet, the clock reading the newest timestamp a sample can have.
\* A quantiles sensor without age limit may have a larger buffer, of up to
\* QuantLen samples that arrived at the same instant.  A binary average_step
\* sensor without age limit may have samples stamped up to StepSpan, the
\* clock then reading StepSpan.
StatInit ==
    /\ is_binary \in BOOLEAN
    /\ state_characteristic \in
          IF is_binary THEN STATS_BINARY_SUPPORT ELSE STATS_NUMERIC_SUPPORT
    /\ samples_max_age \in { NoAge, 0, StatSpan }
    /\ quantile_intervals \in
          IF state_characteristic = STAT_QUANTILES
             THEN { 2, DEFAULT_QUANTILE_INTERVALS }
             ELSE { DEFAULT_QUANTILE_INTERVALS }
    /\ quantile_method \in
          IF state_characteristic = STAT_QUANTILES
             THEN { "exclusive", "inclusive" }
             ELSE { DEFAULT_QUANTILE_METHOD }
    /\ \/ /\ samples_max_buffer_size = StatLen
          /\ \E n \in 0 .. StatLen :
                /\ states \in [1 .. n -> IF is_binary THEN BOOLEAN
                                                     ELSE 1 .. StatVal]
                /\ ages \in StatAges(n)
       \/ /\ state_characteristic = STAT_QUANTILES
          /\ samples_max_age = NoAge
          /\ samples_max_buffer_size = QuantLen
          /\ \E n \in StatLen + 1 .. QuantLen :
                /\ states \in [1 .. n -> 1 .. StatVal]
                /\ ages = [ i \in 1 .. n |-> 0 ]
       \/ /\ is_binary
          /\ state_characteristic = STAT_AVERAGE_STEP
          /\ samples_max_age = NoAge
          /\ samples_max_buffer_size = StatLen
          /\ \E n \in 2 .. StatLen :
                /\ states \in [1 .. n -> BOOLEAN]
                /\ ages \in StepAges(n)
    /\ config = [ binary |-> is_binary,
                  state_characteristic |-> state_characteristic,
                  samples_max_buffer_size |-> samples_max_buffer_size,
                  max_age |-> samples_max_age ]
    /\ setup = "added"
    /\ NoCoordinator
    /\ available = (states # << >>)
    /\ unit_of_measurement =
          IF states # << >>
             THEN DeriveUnitOfMeasurement(is_binary, state_characteristic, "W")
             ELSE NoUnit
    /\ attributes = [ age_coverage_ratio |-> None,
                      buffer_usage_ratio |-> None,
                      source_value_valid |->
                          IF states # << >> THEN Some(TRUE) ELSE None ]
    /\ value = None
    /\ update_listener = NoHandle
    /\ timers = { }
    /\ pending = 2
    /\ listening = TRUE
    /\ backfill = "done"
    /\ fetch_time = 0
    /\ now = IF \E i \in 1 .. Len(ages) : ages[i] > StatSpan
                THEN StepSpan ELSE StatSpan
    /\ last = [ op |-> "init", st |-> "-", err |-> "none", at |-> -1 ]

\* The clock advances by one second between the two queued recomputes.
StatTick ==
    /\ pending = 1
    /\ now = StatSpan
    /\ now' = now + 1
    /\ UNCHANGED << cfg, states, ages, available, unit_of_measurement,
                    attributes, value, update_listener, timers, pending,
                    listening, backfill, fetch_time, last >>

StatNext ==
    \/ AsyncUpdate
    \/ StatTick

StatSpec == StatInit /\ [][StatNext]_vars

\* --------------------------------------------------------- platform setup
\* The names of the methods of StatisticsSensor that compute a characteristic.
StatMethods ==
    { "_stat_average_linear", "_stat_average_step", "_stat_average_timeless",
      "_stat_change", "_stat_change_sample", "_stat_change_second",
      "_stat_count", "_stat_datetime_newest", "_stat_datetime_oldest",
      "_stat_distance_95_percent_of_values",
      "_stat_distance_99_percent_of_values", "_stat_distance_absolute",
      "_stat_mean", "_stat_median", "_stat_noisiness", "_stat_quantiles",
      "_stat_standard_deviation", "_stat_total", "_stat_value_max",
      "_stat_value_min", "_stat_variance", "_stat_binary_average_step",
      "_stat_binary_average_timeless", "_stat_binary_count",
      "_stat_binary_mean" }

\* The attribute name that __init__ looks up.
MethodName(binary, characteristic) ==
    (IF binary THEN "_stat_binary_" ELSE "_stat_") \o characteristic

\* A string that is no characteristic of any source kind.
UnknownCharacteristic == "sum"

\* What a configuration may carry as state_characteristic: nothing, any
\* characteristic, or any other string.
ConfiguredCharacteristics ==
    STATS_NUMERIC_SUPPORT \cup STATS_BINARY_SUPPORT
        \cup { NoneState, UnknownCharacteristic }

\* A validation that checks every source kind against the numeric set.
ValidAgainstNumericSupport(conf) ==
    LET filled == IF conf.state_characteristic = NoneState
                     THEN [conf EXCEPT !.state_characteristic =
                              IF conf.binary THEN STAT_COUNT ELSE STAT_MEAN]
                     ELSE conf
    IN  IF filled.state_characteristic \notin STATS_NUMERIC_SUPPORT
           THEN [ config |-> filled, err |-> "ValueInvalid" ]
           ELSE [ config |-> filled, err |-> "none" ]

\* valid_state_characteristic_configuration
ValidStateCharacteristicConfiguration(conf) ==
    LET filled == IF conf.state_characteristic = NoneState
                     THEN [conf EXCEPT !.state_characteristic =
                              IF conf.binary THEN STAT_COUNT ELSE STAT_MEAN]
                     ELSE conf
        characteristic == filled.state_characteristic
    IN  IF \/ (conf.binary /\ characteristic \notin STATS_BINARY_SUPPORT)
           \/ (~conf.binary /\ characteristic \notin STATS_NUMERIC_SUPPORT)
           THEN [ config |-> filled, err |-> "ValueInvalid" ]
           ELSE [ config |-> filled, err |-> "none" ]

\* A configuration that passed _PLATFORM_SCHEMA_BASE, before the sensor
\* object exists: the fields of the object hold placeholders.
ConfigInit ==
    /\ config \in [ binary : BOOLEAN,
                     state_characteristic : ConfiguredCharacteristics,
                     samples_max_buffer_size : { 1, MaxBuf },
                     max_age : { NoAge, 0, MaxAgeCfg } ]
    /\ setup = "schema"
    /\ NoCoordinator
    /\ is_binary = FALSE
    /\ state_characteristic = NoneState
    /\ samples_max_buffer_size = 1
    /\ samples_max_age = NoAge
    /\ quantile_intervals = DEFAULT_QUANTILE_INTERVALS
    /\ quantile_method = DEFAULT_QUANTILE_METHOD
    /\ states = << >>
    /\ ages = << >>
    /\ available = FALSE
    /\ unit_of_measurement = NoUnit
    /\ attributes = [ age_coverage_ratio |-> None,
                      buffer_usage_ratio |-> None,
                      source_value_valid |-> None ]
    /\ value = None
    /\ update_listener = NoHandle
    /\ timers = { }
    /\ pending = 0
    /\ listening = FALSE
    /\ backfill = "idle"
    /\ fetch_time = 0
    /\ now = 1
    /\ last = [ op |-> "init", st |-> "-", err |-> "none", at |-> -1 ]

\* PLATFORM_SCHEMA applies valid_state_characteristic_configuration to the
\* configuration; an exception rejects the configuration.
ValidateConfiguration ==
    /\ setup = "schema"
    /\ LET r == ValidStateCharacteristicConfiguration(config)
       IN  /\ config' = r.config
           /\ setup' = IF r.err = "none" THEN "validated" ELSE "rejected"
           /\ last' = [ op |-> "validate", st |-> r.config.state_characteristic,
                        err |-> r.err, at |-> -1 ]
    /\ UNCHANGED << is_binary, state_characteristic, samples_max_buffer_size,
                    samples_max_age, quantile_intervals, quantile_method,
                    states, ages, available, unit_of_measurement, attributes,
                    value, update_listener, timers, pending, listening,
                    backfill, fetch_time, now, rt_data, added_sensors,
                    rt_entities, device_updates_handler >>

\* async_setup_platform: StatisticsSensor.__init__ on the validated
\* configuration, then async_add_entities with update_before_add=True.  A
\* getattr that finds no method raises AttributeError and no entity is added.
Construct ==
    /\ setup = "validated"
    /\ is_binary' = config.binary
    /\ state_characteristic' = config.state_characteristic
    /\ samples_max_buffer_size' = config.samples_max_buffer_size
    /\ samples_max_age' = config.max_age
    /\ LET fn == MethodName(config.binary, config.state_characteristic)
       IN  IF fn \in StatMethods
              THEN /\ setup' = "added"
                   /\ pending' = 1
                   /\ last' = [ op |-> "construct", st |-> fn, err |-> "none",
                                at |-> -1 ]
              ELSE /\ setup' = "failed"
                   /\ pending' = pending
                   /\ last' = [ op |-> "construct", st |-> fn,
                                err |-> "AttributeError", at |-> -1 ]
    /\ UNCHANGED << quantile_intervals, quantile_method, config, states, ages,
                    available, unit_of_measurement, attributes, value,
                    update_listener, timers, listening, backfill, fetch_time,
                    now, rt_data, added_sensors, rt_entities,
                    device_updates_handler >>

\* The setup of one sensor, its start, and the readings and recomputes of
\* the added entity at one clock instant.
ConfigNext ==
    \/ ValidateConfiguration
    \/ Construct
    \/ (setup = "added" /\ Startup)
    \/ (setup = "added" /\ StateListener)
    \/ (setup = "added" /\ AsyncUpdate)

ConfigSpec == ConfigInit /\ [][ConfigNext]_vars

\* ------------------------------------------- Tibber real-time coordinator
\* The keys of RT_SENSORS, in the order of the tuple.
RT_SENSORS ==
    << "averagePower", "power", "powerProduction", "minPower", "maxPower",
       "accumulatedConsumption", "accumulatedConsumptionLastHour",
       "estimatedHourConsumption", "accumulatedProduction",
       "accumulatedProductionLastHour", "lastMeterConsumption",
       "lastMeterProduction", "voltagePhase1", "voltagePhase2",
       "voltagePhase3", "currentL1", "currentL2", "currentL3",
       "signalStrength", "accumulatedReward", "accumulatedCost",
       "powerFactor" >>

ModelRtSensors == SubSeq(RT_SENSORS, 1, MaxRtKeys)
ModelRtKeys == { ModelRtSensors[i] : i \in 1 .. Len(ModelRtSensors) }

\* Payloads the subscription delivers: with or without errors; without a
\* liveMeasurement, with an empty one, or with one that gives every key a
\* value or null.  The value 0 is falsy and not None.
RtData ==
    [ errors : BOOLEAN,
      live : { None, Some(<< >>) }
                \cup { Some(m) : m \in [ModelRtKeys -> { None, Some(0) }] } ]

\* get_live_measurement: None when the payload carries errors.
GetLiveMeasurement(d) == IF d.errors THEN None ELSE d.live

\* live_measurement.get(key)
LiveGet(m, key) == IF key \in DOMAIN m THEN m[key] ELSE None

\* The entities built by a loop that does not skip the keys already added.
NewEntitiesForEveryValue(d, added) ==
    LET live == GetLiveMeasurement(d)
        HasState(key) == LiveGet(live[1], key) # None
        fresh == IF live = None \/ DOMAIN live[1] = { }
                    THEN << >>
                    ELSE SelectSeq(ModelRtSensors, HasState)
    IN  [ i \in 1 .. Len(fresh) |->
            [ key |-> fresh[i], initial_state |-> LiveGet(live[1], fresh[i])[1] ] ]

\* _add_sensors: the list new_entities for payload d, given the keys already
\* added.
NewEntities(d, added) ==
    LET live == GetLiveMeasurement(d)
        IsNew(key) == key \notin added /\ LiveGet(live[1], key) # None
        fresh == IF live = None \/ DOMAIN live[1] = { }
                    THEN << >>
                    ELSE SelectSeq(ModelRtSensors, IsNew)
    IN  [ i \in 1 .. Len(fresh) |->
            [ key |-> fresh[i], initial_state |-> LiveGet(live[1], fresh[i])[1] ] ]

\* TibberRtDataCoordinator.__init__: no data yet, no sensor added,
\* _add_sensors registered.  The statistics sensor is not set up.
TibberInit ==
    /\ rt_data = [ errors |-> FALSE, live |-> None ]
    /\ added_sensors = { }
    /\ rt_entities = << >>
    /\ device_updates_handler = TRUE
    /\ is_binary = FALSE
    /\ state_characteristic = NoneState
    /\ samples_max_buffer_size = 1
    /\ samples_max_age = NoAge
    /\ quantile_intervals = DEFAULT_QUANTILE_INTERVALS
    /\ quantile_method = DEFAULT_QUANTILE_METHOD
    /\ config = [ binary |-> FALSE, state_characteristic |-> NoneState,
                  samples_max_buffer_size |-> 1, max_age |-> NoAge ]
    /\ setup = "schema"
    /\ states = << >>
    /\ ages = << >>
    /\ available = FALSE
    /\ unit_of_measurement = NoUnit
    /\ attributes = [ age_coverage_ratio |-> None,
                      buffer_usage_ratio |-> None,
                      source_value_valid |-> None ]
    /\ value = None
    /\ update_listener = NoHandle
    /\ timers = { }
    /\ pending = 0
    /\ listening = FALSE
    /\ backfill = "idle"
    /\ fetch_time = 0
    /\ now = 1
    /\ last = [ op |-> "init", st |-> "-", err |-> "none", at |-> -1 ]

\* The variables of the statistics sensor.
statistics_vars ==
    << is_binary, state_characteristic, samples_max_buffer_size,
       samples_max_age, quantile_intervals, quantile_method, config, setup,
       states, ages, available, unit_of_measurement, attributes, value,
       update_listener, timers, pending, listening, backfill, fetch_time,
       now >>

\* async_set_updated_data(d): store the payload and call the listeners;
\* _add_sensors, while registered, adds the entities of the new keys.
AsyncSetUpdatedData ==
    /\ \E d \in RtData :
          /\ rt_data' = d
          /\ IF device_updates_handler
                THEN LET new_entities == NewEntities(d, added_sensors)
                     IN  /\ added_sensors' = added_sensors \cup
                               { new_entities[i].key : i \in 1 .. Len(new_entities) }
                         /\ rt_entities' = rt_entities \o new_entities
                ELSE UNCHANGED << added_sensors, rt_entities >>
    /\ last' = [ op |-> "rt_update", st |-> "-", err |-> "none", at |-> -1 ]
    /\ UNCHANGED << statistics_vars, device_updates_handler >>

\* _handle_ha_stop: remove the _add_sensors listener.
HandleHaStop ==
    /\ device_updates_handler
    /\ device_updates_handler' = FALSE
    /\ last' = [ op |-> "ha_stop", st |-> "-", err |-> "none", at |-> -1 ]
    /\ UNCHANGED << statistics_vars, rt_data, added_sensors, rt_entities >>

TibberNext ==
    \/ AsyncSetUpdatedData
    \/ HandleHaStop

TibberSpec == TibberInit /\ [][TibberNext]_vars

\* ------------------------------------------------------------- properties
\* States that are not "unavailable", "unknown" or None and that float()
\* rejects.
UnparseableNumeric == { st \in LiveStates : ParseFloat(st) = None }
                         \ { STATE_UNAVAILABLE, STATE_UNKNOWN, NoneState }

\* States that are not "unavailable", "unknown" or None and are neither
\* "on" nor "off".
UnparseableBinary ==
    LiveStates \ { STATE_UNAVAILABLE, STATE_UNKNOWN, NoneState, "on", "off" }

\* C1: in every reachable state the value buffer and the timestamp buffer
\* have the same length, and that length is at most sampling_size.
C1_BuffersAligned ==
    /\ Len(states) = Len(ages)
    /\ Len(states) <= samples_max_buffer_size

\* A reading was admitted by the listener into a buffer that is now full.
C1_Witness ==
    /\ last.op = "listener"
    /\ attributes.source_value_valid = Some(TRUE)
    /\ samples_max_buffer_size = MaxBuf
    /\ Len(states) = MaxBuf
    /\ ages[1] < ages[MaxBuf]

\* C2: with max_age set, right after a recompute no sample in the buffer, at
\* any position, is older than max_age.
C2_NoStaleSampleAfterUpdate ==
    (last.op = "update" /\ samples_max_age # NoAge)
        => \A i \in 1 .. Len(ages) : now - ages[i] <= samples_max_age

\* C3: at most one purge wake-up of the sensor is pending in the scheduler.
C3_AtMostOneWakeup == Cardinality(timers) <= 1

\* A recompute replaced a wake-up that was still pending: the handle differs
\* from the first one handed out.
C3_Witness ==
    /\ last.op = "update"
    /\ \E t \in timers : t.id = 1 /\ update_listener = 1

\* C4 as stated: after a recompute that ends with an empty buffer no purge
\* wake-up is pending.
C4_NoWakeupWhenEmpty ==
    (last.op = "update" /\ states = << >>) => timers = { }

\* C4 amended: a recompute that ends with an empty buffer registers no
\* wake-up and cancels none; the scheduler and the handle are left as they
\* were.
C4_EmptyUpdateLeavesScheduler ==
    [][ (last'.op = "update" /\ states' = << >>)
            => (timers' = timers /\ update_listener' = update_listener) ]_vars

\* A recompute emptied the buffer while an earlier wake-up is still pending.
C4_Witness ==
    /\ last.op = "update"
    /\ states = << >>
    /\ timers # { }

\* C5: when the wake-up set for the oldest sample's expiry has fired, the
\* recompute it queued removes that sample.
C5_FiredWakeupRemovesOldest ==
    [][ ( /\ last.op = "timer"
          /\ last'.op = "update"
          /\ ages # << >>
          /\ last.at = ages[1] + samples_max_age )
            => Len(ages') < Len(ages) ]_vars

\* C6: with max_age set the buffer eventually stays empty and the timer
\* eventually stays idle (readings stop after LastIngest).
C6_EventuallyEmptyAndIdle ==
    (samples_max_age # NoAge)
        => <>[](states = << >> /\ timers = { } /\ update_listener = NoHandle)

\* C7: after a recompute that leaves samples in the buffer, with max_age set,
\* exactly one wake-up is pending, at the front timestamp plus max_age.
C7_WakeupAtFrontExpiry ==
    (last.op = "update" /\ samples_max_age # NoAge /\ states # << >>)
        => /\ Cardinality(timers) = 1
           /\ \A t \in timers : t.at = ages[1] + samples_max_age

\* C8: a numeric reading that cannot be parsed leaves both buffers and the
\* unit unchanged, sets source_value_valid to False and raises nothing.
C8_ParseFailureFrame ==
    [][ (~is_binary /\ last'.op = "listener" /\ last'.st \in UnparseableNumeric)
            => /\ states' = states
               /\ ages' = ages
               /\ unit_of_measurement' = unit_of_measurement
               /\ attributes'.source_value_valid = Some(FALSE)
               /\ last'.err = "none" ]_vars

\* An unparseable numeric reading arrived while the buffer held a sample
\* with a unit.
C8_Witness ==
    /\ ~is_binary
    /\ last.op = "listener"
    /\ last.st = "abc"
    /\ states # << >>
    /\ unit_of_measurement # NoUnit
    /\ attributes.source_value_valid = Some(FALSE)

\* C9: for a binary source a state that is neither "on" nor "off" is a parse
\* failure: buffers unchanged, source_value_valid False, nothing raised.
C9_BinaryParseFailureFrame ==
    [][ (is_binary /\ last'.op = "listener" /\ last'.st \in UnparseableBinary)
            => /\ states' = states
               /\ ages' = ages
               /\ attributes'.source_value_valid = Some(FALSE)
               /\ last'.err = "none" ]_vars

\* C10: an "unavailable" reading clears the availability flag, makes
\* source_value_valid absent and leaves both buffers and the unit unchanged.
C10_UnavailableFrame ==
    [][ (last'.op = "listener" /\ last'.st = STATE_UNAVAILABLE)
            => /\ available' = FALSE
               /\ attributes'.source_value_valid = None
               /\ states' = states
               /\ ages' = ages
               /\ unit_of_measurement' = unit_of_measurement ]_vars

\* An "unavailable" reading arrived at a sensor whose buffer held a valid
\* sample with a unit.
C10_Witness ==
    /\ last.op = "listener"
    /\ last.st = STATE_UNAVAILABLE
    /\ states # << >>
    /\ unit_of_measurement # NoUnit
    /\ ~available
    /\ attributes.source_value_valid = None

\* C11: a reading that is "unknown" or has no value sets source_value_valid
\* to False, makes the sensor available and leaves both buffers and the unit
\* unchanged.
C11_UnknownFrame ==
    [][ (last'.op = "listener" /\ last'.st \in { STATE_UNKNOWN, NoneState })
            => /\ attributes'.source_value_valid = Some(FALSE)
               /\ available' = TRUE
               /\ states' = states
               /\ ages' = ages
               /\ unit_of_measurement' = unit_of_measurement ]_vars

\* A reading without a value arrived at a sensor whose buffer held a sample
\* with a unit.
C11_Witness ==
    /\ last.op = "listener"
    /\ last.st = NoneState
    /\ states # << >>
    /\ unit_of_measurement # NoUnit
    /\ available
    /\ attributes.source_value_valid = Some(FALSE)

\* The step that led to l passed a reading to _add_state_to_queue; l.st is
\* the last one it passed.
Ingested(l) ==
    /\ l.op \in { "listener", "backfill" }
    /\ l.st \notin { "-", "<missing>" }

\* C12: the availability flag is False before any reading is ingested; a step
\* that ingests readings leaves it True exactly when the last one was not
\* "unavailable"; no other step changes it.
C12_AvailabilityMirrorsLastReading ==
    /\ available = FALSE
    /\ [][ IF Ingested(last')
              THEN available' = (last'.st # STATE_UNAVAILABLE)
              ELSE available' = available ]_vars

\* A backfill replay admitted a row and ended with an "unavailable" row.
C12_Witness ==
    /\ last.op = "backfill"
    /\ last.st = STATE_UNAVAILABLE
    /\ states # << >>
    /\ ~available

\* The reading's state passes the conversion of _add_state_to_queue.
Admissible(st) ==
    /\ st \notin { STATE_UNAVAILABLE, STATE_UNKNOWN, NoneState }
    /\ IF is_binary THEN st \in { "on", "off" } ELSE ParseFloat(st) # None

\* The value stored for an admissible state.
ParsedValue(st) == IF is_binary THEN st = "on" ELSE ParseFloat(st)[1]

\* The last m elements of s.
LastN(s, m) == SubSeq(s, Len(s) - m + 1, Len(s))

Min(a, b) == IF a < b THEN a ELSE b

\* C13: an admitted reading is appended as one (value, timestamp) pair at the
\* back, and a full buffer drops exactly its front pair.  After a listener
\* step that admits, both buffers are the last min(k, sampling_size) elements
\* of the old pairs followed by the new one.  After a replay that returns,
\* the buffers are a tail of the old pairs, cut at the front only when the
\* buffer ends full, followed by pairs of the history result in time order.
C13_AdmissionAppendsPair ==
    [][ /\ (last'.op = "listener" /\ Admissible(last'.st))
              => LET m == Min(Len(states) + 1, samples_max_buffer_size)
                 IN  /\ states' = LastN(states \o << ParsedValue(last'.st) >>, m)
                     /\ ages' = LastN(ages \o << now >>, m)
        /\ (last'.op = "backfill" /\ last'.err = "none")
              => \E kept \in 0 .. Len(states) :
                    /\ kept <= Len(states')
                    /\ Len(states') = Len(ages')
                    /\ SubSeq(states', 1, kept) = LastN(states, kept)
                    /\ SubSeq(ages', 1, kept) = LastN(ages, kept)
                    /\ (kept < Len(states))
                          => Len(states') = samples_max_buffer_size
                    /\ \A i \in kept + 1 .. Len(ages') :
                          /\ ages'[i] <= fetch_time
                          /\ (i > kept + 1) => ages'[i - 1] < ages'[i] ]_vars

\* A binary reading "off" was admitted at the back of a full buffer of more
\* than one sample whose front holds an older "on".
C13_Witness ==
    /\ is_binary
    /\ last.op = "listener"
    /\ last.st = "off"
    /\ samples_max_buffer_size > 1
    /\ Len(states) = samples_max_buffer_size
    /\ states[1] = TRUE
    /\ states[Len(states)] = FALSE
    /\ ages[1] < now
    /\ ages[Len(ages)] = now

\* The characteristics that divide by the elapsed time between the oldest
\* and the newest sample.
DividesByElapsedTime ==
    IF is_binary
        THEN state_characteristic = STAT_AVERAGE_STEP
        ELSE state_characteristic \in
                { STAT_AVERAGE_LINEAR, STAT_AVERAGE_STEP, STAT_CHANGE_SECOND }

\* C14: for a characteristic that divides by elapsed time, a recompute on a
\* buffer of at least 2 samples whose oldest and newest timestamps are equal
\* publishes no value and raises nothing.  (max_age = 0, where the attributes
\* already divide by zero, is left aside.)
C14_ZeroElapsedYieldsAbsent ==
    ( /\ last.op = "update"
      /\ samples_max_age # 0
      /\ DividesByElapsedTime
      /\ Len(states) >= 2
      /\ ages[Len(ages)] = ages[1] )
        => (value = None /\ last.err = "none")

\* C15: the history replay is merged once, after it was fetched, and no live
\* reading is admitted while the replay is still outstanding.
C15_NoLiveAdmissionBeforeMerge ==
    [][ /\ (last'.op = "backfill") => (backfill = "fetched" /\ backfill' = "done")
        /\ (last'.op = "listener" /\ backfill \in { "created", "fetched" })
              => (states' = states /\ ages' = ages) ]_vars

\* C16: in every reachable state the timestamps in the buffer are in
\* non-decreasing order from front to back.
C16_TimestampsOrdered ==
    \A i \in 1 .. Len(ages) - 1 : ages[i] <= ages[i + 1]

\* C17: after every recompute the value of the count characteristic, in
\* hundredths, is the number of samples left in the buffer.
C17_CountIsBufferLength ==
    (last.op = "update" /\ state_characteristic = STAT_COUNT)
        => value = Some(100 * Len(states))

\* The least number of samples for which a characteristic has a value.
MinSamples ==
    IF state_characteristic \in
          { STAT_AVERAGE_TIMELESS, STAT_CHANGE, STAT_DATETIME_NEWEST,
            STAT_DATETIME_OLDEST, STAT_DISTANCE_ABSOLUTE, STAT_MEAN,
            STAT_MEDIAN, STAT_TOTAL, STAT_VALUE_MAX, STAT_VALUE_MIN }
        THEN 1
    ELSE IF state_characteristic \in
          { STAT_AVERAGE_LINEAR, STAT_AVERAGE_STEP, STAT_CHANGE_SAMPLE,
            STAT_CHANGE_SECOND, STAT_DISTANCE_95P, STAT_DISTANCE_99P,
            STAT_NOISINESS, STAT_VARIANCE, STAT_STANDARD_DEVIATION }
        THEN 2
    ELSE IF state_characteristic = STAT_QUANTILES
        THEN quantile_intervals + 1
    ELSE 0

\* C18: for every characteristic other than count, after a recompute that
\* leaves fewer samples than the characteristic's minimum the published
\* value is None.
C18_BelowMinimumIsAbsent ==
    ( /\ last.op = "update"
      /\ state_characteristic # STAT_COUNT
      /\ Len(states) < MinSamples )
        => value = None

\* The second recompute, one second after the first, purged a buffer that
\* held enough samples for a standard deviation down to a single sample.
C18_Witness ==
    /\ last.op = "update"
    /\ last.err = "none"
    /\ state_characteristic = STAT_STANDARD_DEVIATION
    /\ now = StatSpan + 1
    /\ pending = 0
    /\ Len(states) = 1
    /\ attributes.buffer_usage_ratio = Some(Round2(1, samples_max_buffer_size))
    /\ value = None

\* What the sensor publishes: buffers, value, unit, availability, attributes.
Snapshot ==
    << states, ages, value, unit_of_measurement, available, attributes >>

\* C19 as stated: the second of two recomputes with no ingestion, backfill or
\* timer firing between them leaves the snapshot of the first unchanged.
C19_RecomputeIdempotent ==
    [][ (last.op = "update" /\ last'.op = "update")
            => Snapshot' = Snapshot ]_vars

\* C19 amended: the second of two such recomputes that reads the same clock
\* instant as the first leaves the snapshot unchanged.
C19_RecomputeIdempotentAtSameInstant ==
    [][ (last.op = "update" /\ last'.op = "update" /\ last'.at = last.at)
            => Snapshot' = Snapshot ]_vars

\* Both recomputes ran at the same instant on a buffer that kept samples,
\* with max_age set, and published a value.
C19_Witness ==
    /\ last.op = "update"
    /\ last.err = "none"
    /\ pending = 0
    /\ now = StatSpan
    /\ samples_max_age = StatSpan
    /\ Len(states) >= 2
    /\ value # None

\* Sum over the pairs i < j of the squared difference of s[i] and s[j].
RECURSIVE PairSquares(_)
PairSquares(s) ==
    IF Len(s) < 2 THEN 0
    ELSE SumUpTo([ j \in 1 .. Len(s) - 1 |->
                     (s[1] - s[j + 1]) * (s[1] - s[j + 1]) ], Len(s) - 1)
         + PairSquares(Tail(s))

\* h is p / q rounded to hundredths.
IsHundredthsOf(h, p, q) ==
    /\ (2 * h - 1) * q <= 200 * p
    /\ 200 * p <= (2 * h + 1) * q

\* h is the square root of p / q rounded to hundredths.
IsHundredthsOfRoot(h, p, q) ==
    /\ h >= 0
    /\ (h = 0 \/ (2 * h - 1) * (2 * h - 1) * q <= 40000 * p)
    /\ 40000 * p <= (2 * h + 1) * (2 * h + 1) * q

\* C20 as stated: on a numeric buffer of n >= 2 samples a completed recompute
\* publishes as variance the population variance, the mean squared deviation
\* with divisor n, which is the pair sum over n^2, and as standard_deviation
\* its square root.
C20_PopulationVariance ==
    ( /\ last.op = "update"
      /\ last.err = "none"
      /\ ~is_binary
      /\ Len(states) >= 2 )
        => LET n == Len(states)
           IN  /\ (state_characteristic = STAT_VARIANCE)
                    => IsHundredthsOf(value[1], PairSquares(states), n * n)
               /\ (state_characteristic = STAT_STANDARD_DEVIATION)
                    => IsHundredthsOfRoot(value[1], PairSquares(states), n * n)

\* C20 amended: the published variance is the sample variance, divisor
\* n - 1, which is the pair sum over n (n - 1), and standard_deviation is
\* its square root.
C20_SampleVariance ==
    ( /\ last.op = "update"
      /\ last.err = "none"
      /\ ~is_binary
      /\ Len(states) >= 2 )
        => LET n == Len(states)
           IN  /\ (state_characteristic = STAT_VARIANCE)
                    => IsHundredthsOf(value[1], PairSquares(states), n * (n - 1))
               /\ (state_characteristic = STAT_STANDARD_DEVIATION)
                    => IsHundredthsOfRoot(value[1], PairSquares(states), n * (n - 1))

\* A standard deviation was published for three samples that are not all
\* equal.
C20_Witness ==
    /\ last.op = "update"
    /\ last.err = "none"
    /\ state_characteristic = STAT_STANDARD_DEVIATION
    /\ Len(states) = 3
    /\ states[1] # states[3]
    /\ value # None
    /\ value[1] > 0

\* A recompute has just run to its end on a numeric buffer.
NumericUpdateDone == last.op = "update" /\ last.err = "none" /\ ~is_binary

\* C21: on the numeric buffer [1, 2, 3] a completed recompute publishes 2 as
\* mean, 1 as variance and 1 as standard_deviation, whatever the timestamps.
C21_OneTwoThree ==
    (NumericUpdateDone /\ states = << 1, 2, 3 >>)
        => /\ (state_characteristic = STAT_MEAN) => value = Some(200)
           /\ (state_characteristic = STAT_VARIANCE) => value = Some(100)
           /\ (state_characteristic = STAT_STANDARD_DEVIATION) => value = Some(100)

\* The mean of [1, 2, 3] was published for timestamps that are not evenly
\* spaced.
C21_Witness ==
    /\ NumericUpdateDone
    /\ state_characteristic = STAT_MEAN
    /\ states = << 1, 2, 3 >>
    /\ ages[2] - ages[1] # ages[3] - ages[2]
    /\ value = Some(200)

\* C22: on a numeric buffer of n >= 1 samples change is the newest value
\* minus the oldest, whatever lies between them, and for n >= 2 change_sample
\* is that difference divided by n - 1.
C22_ChangeIsNewestMinusOldest ==
    (NumericUpdateDone /\ Len(states) >= 1)
        => LET n == Len(states)
               diff == states[n] - states[1]
           IN  /\ (state_characteristic = STAT_CHANGE) => value = Some(100 * diff)
               /\ (state_characteristic = STAT_CHANGE_SAMPLE /\ n >= 2)
                    => IsHundredthsOf(value[1], diff, n - 1)

\* A change per sample was published for three samples whose middle value
\* lies outside the two ends.
C22_Witness ==
    /\ NumericUpdateDone
    /\ state_characteristic = STAT_CHANGE_SAMPLE
    /\ Len(states) = 3
    /\ states[2] > states[3]
    /\ states[3] > states[1]
    /\ value = Some(50)

\* The sum over i = 1 .. n - 1 of v[i - 1] * (t[i] - t[i - 1]), from the back.
RECURSIVE LeftRectangles(_, _)
LeftRectangles(st, ag) ==
    IF Len(st) < 2 THEN 0
    ELSE LET n == Len(st)
         IN  st[n - 1] * (ag[n] - ag[n - 1])
             + LeftRectangles(SubSeq(st, 1, n - 1), SubSeq(ag, 1, n - 1))

\* C23: on a numeric buffer of n >= 2 samples with positive elapsed time,
\* average_step is the sum of v[i - 1] * (t[i] - t[i - 1]) divided by the
\* elapsed seconds; the newest value is not part of it.
C23_AverageStepHoldsLeft ==
    ( /\ NumericUpdateDone
      /\ state_characteristic = STAT_AVERAGE_STEP
      /\ Len(states) >= 2
      /\ ages[Len(ages)] - ages[1] > 0 )
        => IsHundredthsOf(value[1], LeftRectangles(states, ages),
                          ages[Len(ages)] - ages[1])

\* A step average was published for two samples, the newest the larger: it
\* is the older value.
C23_Witness ==
    /\ NumericUpdateDone
    /\ state_characteristic = STAT_AVERAGE_STEP
    /\ Len(states) = 2
    /\ ages[1] < ages[2]
    /\ states[1] < states[2]
    /\ value = Some(100 * states[1])

\* C24: on a binary buffer of n >= 1 samples mean and average_timeless are
\* 100 * (number of True samples) / n, a value between 0 and 100.
C24_BinaryMeanIsPercentage ==
    ( /\ last.op = "update"
      /\ last.err = "none"
      /\ is_binary
      /\ state_characteristic \in { STAT_MEAN, STAT_AVERAGE_TIMELESS }
      /\ Len(states) >= 1 )
        => /\ IsHundredthsOf(value[1],
                             100 * Cardinality({ i \in 1 .. Len(states) : states[i] }),
                             Len(states))
           /\ value[1] >= 0
           /\ value[1] <= 100 * 100

\* average_timeless was published for a binary buffer with one True sample
\* out of two.
C24_Witness ==
    /\ last.op = "update"
    /\ last.err = "none"
    /\ is_binary
    /\ state_characteristic = STAT_AVERAGE_TIMELESS
    /\ states = << TRUE, FALSE >>
    /\ value = Some(50 * 100)

\* C25: after a completed recompute of a quantiles sensor the value is absent
\* exactly when the buffer holds no more samples than quantile_intervals, and
\* otherwise it is a list of quantile_intervals - 1 boundaries.
C25_QuantilesNeedMoreThanIntervals ==
    (NumericUpdateDone /\ state_characteristic = STAT_QUANTILES)
        => /\ (value = None) <=> (Len(states) <= quantile_intervals)
           /\ (value # None) => Len(value[1]) = quantile_intervals - 1

\* With the default 4 intervals a buffer of 5 samples has published 3
\* boundaries.
C25_Witness ==
    /\ NumericUpdateDone
    /\ state_characteristic = STAT_QUANTILES
    /\ quantile_intervals = DEFAULT_QUANTILE_INTERVALS
    /\ Len(states) = DEFAULT_QUANTILE_INTERVALS + 1
    /\ value # None
    /\ Len(value[1]) = 3

\* The characteristics the source kind supports.
SupportedFor(binary) ==
    IF binary THEN STATS_BINARY_SUPPORT ELSE STATS_NUMERIC_SUPPORT

\* C26: validation rejects a configuration exactly when its characteristic
\* is given and is not supported for the source kind; a missing
\* characteristic becomes count for a binary source and mean for a numeric
\* one; a given one is left as it is; and the construction that follows an
\* accepted configuration finds the characteristic's method and takes over
\* the characteristic.
C26_RejectsExactlyUnsupported ==
    [][ /\ (last'.op = "validate")
              => LET given == config.state_characteristic
                 IN  /\ (setup' = "rejected")
                           <=> ( /\ given # NoneState
                                 /\ given \notin SupportedFor(config.binary) )
                     /\ (setup' # "rejected") <=> (setup' = "validated")
                     /\ (given = NoneState)
                           => config'.state_characteristic =
                                 IF config.binary THEN STAT_COUNT ELSE STAT_MEAN
                     /\ (given # NoneState) => config' = config
        /\ (last'.op = "construct")
              => /\ setup' = "added"
                 /\ last'.err = "none"
                 /\ last'.st \in StatMethods
                 /\ is_binary' = config.binary
                 /\ state_characteristic' = config.state_characteristic
                 /\ state_characteristic' \in SupportedFor(config.binary) ]_vars

\* A binary sensor configured without a characteristic was constructed with
\* the method of count.
C26_Witness ==
    /\ setup = "added"
    /\ last.op = "construct"
    /\ is_binary
    /\ state_characteristic = STAT_COUNT
    /\ last.st = "_stat_binary_count"

\* The characteristics whose unit is the source's unit.
UnitPreserving ==
    { STAT_AVERAGE_LINEAR, STAT_AVERAGE_STEP, STAT_AVERAGE_TIMELESS,
      STAT_CHANGE, STAT_DISTANCE_95P, STAT_DISTANCE_99P,
      STAT_DISTANCE_ABSOLUTE, STAT_MEAN, STAT_MEDIAN, STAT_NOISINESS,
      STAT_STANDARD_DEVIATION, STAT_TOTAL, STAT_VALUE_MAX, STAT_VALUE_MIN }

\* The unit table, by source kind, characteristic and source unit.
UnitTable(binary, characteristic, unit) ==
    IF binary /\ characteristic \in
           { STAT_AVERAGE_STEP, STAT_AVERAGE_TIMELESS, STAT_MEAN }
        THEN "%"
    ELSE IF unit = NoUnit THEN NoUnit
    ELSE CASE characteristic \in UnitPreserving -> unit
           [] characteristic \in { STAT_DATETIME_NEWEST, STAT_DATETIME_OLDEST,
                                   STAT_QUANTILES, STAT_COUNT } -> NoUnit
           [] characteristic = STAT_VARIANCE -> unit \o "²"
           [] characteristic = STAT_CHANGE_SAMPLE -> unit \o "/sample"
           [] characteristic = STAT_CHANGE_SECOND -> unit \o "/s"

\* C27: whenever the listener admits a reading of a source that declares
\* unit u (or none), the sensor's unit becomes the entry of the unit table
\* for its source kind, its characteristic and u, for every supported
\* characteristic, and it is always a result of one of the branches.
C27_DerivedUnitTable ==
    [][ \A st \in LiveStates, u \in SourceUnits :
          (StateListenerFor(st, u) /\ Admissible(st))
              => /\ state_characteristic \in SupportedFor(is_binary)
                 /\ unit_of_measurement' # "<unbound>"
                 /\ unit_of_measurement' =
                       UnitTable(is_binary, state_characteristic, u) ]_vars

\* A variance sensor has admitted a reading in "W" and carries the unit "W²".
C27_Witness ==
    /\ last.op = "listener"
    /\ Admissible(last.st)
    /\ ~is_binary
    /\ state_characteristic = STAT_VARIANCE
    /\ unit_of_measurement = "W²"

\* C28: the snapshot a completed recompute publishes is computed from the
\* buffer the purge left: buffer_usage_ratio, age_coverage_ratio and the
\* value are those of the buffer after the step, and with max_age set no
\* sample of that buffer is older than max_age at the recompute's clock
\* reading.
C28_SnapshotFromPurgedBuffer ==
    (last.op = "update" /\ last.err = "none")
        => LET n == Len(states)
           IN  /\ attributes.buffer_usage_ratio =
                     Some(Round2(n, samples_max_buffer_size))
               /\ attributes.age_coverage_ratio =
                     IF n >= 1 /\ samples_max_age # NoAge
                        THEN Some(Round2(ages[n] - ages[1], samples_max_age))
                        ELSE None
               /\ value = UpdateValue(states, ages)
               /\ (samples_max_age # NoAge)
                     => \A i \in 1 .. n : last.at - ages[i] <= samples_max_age

\* C29: a wake-up that fires leaves the scheduler, clears the handle and
\* queues one recompute; a recompute registers a wake-up only if it leaves
\* samples in the buffer; and a handle that is set always names a wake-up
\* that is still pending, so what a recompute cancels has not fired.
C29_FiredWakeupIsSpent ==
    [][ /\ (last'.op = "timer")
              => /\ update_listener' = NoHandle
                 /\ pending' = pending + 1
                 /\ \E t \in timers : t.at = last'.at /\ timers' = timers \ { t }
        /\ (last'.op = "update" /\ ~(timers' \subseteq timers))
              => /\ states' # << >>
                 /\ last'.err = "none"
        /\ (last'.op = "update" /\ update_listener # NoHandle
               /\ update_listener' # update_listener)
              => \E t \in timers : t.id = update_listener /\ t \notin timers'
        /\ (update_listener' # NoHandle)
              => \E t \in timers' : t.id = update_listener' ]_vars

\* A wake-up has just fired with two samples in the buffer: the handle is
\* cleared, the scheduler is empty and one recompute is queued.
C29_Witness ==
    /\ last.op = "timer"
    /\ Len(states) = 2
    /\ update_listener = NoHandle
    /\ timers = { }
    /\ pending = 1

\* C30: a listener step for an event that carries a new state queues one
\* recompute, whatever the reading; a listener step for an event without a
\* new state changes nothing of the sensor and queues none.
C30_EveryReadingSchedulesRecompute ==
    [][ /\ (last'.op = "listener" /\ last'.st # "<missing>")
              => pending' = pending + 1
        /\ (last'.op = "listener" /\ last'.st = "<missing>")
              => /\ pending' = pending
                 /\ states' = states
                 /\ ages' = ages
                 /\ available' = available
                 /\ attributes' = attributes ]_vars

\* The rows of a history result whose state is admissible, oldest first.
AdmittedOldestFirst(rows) ==
    LET IsAdmissible(r) == Admissible(r.state)
    IN  SelectSeq(Reversed(rows), IsAdmissible)

\* C31: a backfill merged into an empty buffer leaves in the buffer the
\* admissible rows of the history result, oldest first, at most sampling_size
\* of them, and queues one recompute, also for an empty result.
C31_BackfillIntoEmptyBuffer ==
    [][ (last'.op = "backfill" /\ states = << >>)
            => \A rows \in HistoryRows(fetch_time) :
                  InitializeFromDatabaseFor(rows)
                      => LET adm == AdmittedOldestFirst(rows)
                         IN  /\ states' = [ i \in 1 .. Len(adm) |->
                                              ParsedValue(adm[i].state) ]
                             /\ ages' = [ i \in 1 .. Len(adm) |-> adm[i].ts ]
                             /\ Len(states') <= samples_max_buffer_size
                             /\ pending' = pending + 1 ]_vars

\* extra_state_attributes: the attributes whose stored value is not None.
ExtraStateAttributes ==
    [ key \in { k \in DOMAIN attributes : attributes[k] # None } |->
        attributes[key][1] ]

\* C32: after every recompute the published attribute map has
\* age_coverage_ratio exactly when max_age is configured and the buffer is
\* not empty, has buffer_usage_ratio equal to the buffer length over
\* sampling_size rounded to 2 decimals, omits every attribute whose stored
\* value is None and publishes a source_value_valid of False.
C32_PublishedAttributes ==
    (last.op = "update")
        => LET published == ExtraStateAttributes
           IN  /\ ("age_coverage_ratio" \in DOMAIN published)
                     <=> (samples_max_age # NoAge /\ states # << >>)
               /\ "buffer_usage_ratio" \in DOMAIN published
               /\ published.buffer_usage_ratio =
                     Round2(Len(states), samples_max_buffer_size)
               /\ \A k \in DOMAIN attributes :
                     (attributes[k] = None) => k \notin DOMAIN published
               /\ (attributes.source_value_valid = Some(FALSE))
                     => /\ "source_value_valid" \in DOMAIN published
                        /\ published.source_value_valid = FALSE

\* C33: every published buffer_usage_ratio lies between 0 and 1, and every
\* published age_coverage_ratio lies between 0 and 1 (ratios are held in
\* hundredths).
C33_RatiosWithinUnitInterval ==
    /\ (attributes.buffer_usage_ratio # None)
          => (attributes.buffer_usage_ratio[1] >= 0
                /\ attributes.buffer_usage_ratio[1] <= 100)
    /\ (attributes.age_coverage_ratio # None)
          => (attributes.age_coverage_ratio[1] >= 0
                /\ attributes.age_coverage_ratio[1] <= 100)

\* C34: the unit is absent before the first admission; a listener step that
\* admits a reading of a source with unit u sets it to the table entry for
\* u; a backfill changes it only to the entry for the unit of its rows, and
\* does so whenever it changes the buffers; every other step (a reading that
\* is not admitted, an event without state, a recompute with its purge, a
\* fired wake-up, the clock) leaves it as it was.
C34_UnitFollowsAdmission ==
    /\ unit_of_measurement = NoUnit
    /\ [][ IF last'.op = "listener" /\ Admissible(last'.st)
              THEN \A u \in SourceUnits :
                      StateListenerFor(last'.st, u)
                          => unit_of_measurement' =
                                UnitTable(is_binary, state_characteristic, u)
           ELSE IF last'.op = "backfill"
              THEN LET row_unit == UnitTable(is_binary, state_characteristic, "W")
                   IN  /\ (unit_of_measurement' # unit_of_measurement)
                             => (unit_of_measurement' = row_unit /\ last'.st # "-")
                       /\ (states' # states \/ ages' # ages)
                             => unit_of_measurement' = row_unit
           ELSE unit_of_measurement' = unit_of_measurement ]_vars

\* A recompute has purged the last sample and the unit derived from it is
\* still set.
C34_Witness ==
    /\ last.op = "update"
    /\ last.err = "none"
    /\ states = << >>
    /\ samples_max_age > 0
    /\ unit_of_measurement = "W/s"

\* The seconds of the intervals t[i] - t[i - 1] whose left sample is True.
RECURSIVE OnSeconds(_, _)
OnSeconds(st, ag) ==
    IF Len(st) < 2 THEN 0
    ELSE LET n == Len(st)
         IN  (IF st[n - 1] THEN ag[n] - ag[n - 1] ELSE 0)
             + OnSeconds(SubSeq(st, 1, n - 1), SubSeq(ag, 1, n - 1))

\* C35: on a binary buffer of n >= 2 samples with positive elapsed time,
\* average_step is 100 * (seconds of the intervals whose left sample is True)
\* divided by the elapsed seconds, and lies between 0 and 100.
C35_BinaryAverageStepIsPercentage ==
    ( /\ last.op = "update"
      /\ last.err = "none"
      /\ is_binary
      /\ state_characteristic = STAT_AVERAGE_STEP
      /\ Len(states) >= 2
      /\ ages[Len(ages)] - ages[1] > 0 )
        => /\ IsHundredthsOf(value[1], 100 * OnSeconds(states, ages),
                             ages[Len(ages)] - ages[1])
           /\ value[1] >= 0
           /\ value[1] <= 100 * 100

\* C36: with max_age not configured no wake-up is ever registered, and the
\* buffer changes only in steps that ingest readings, which never shorten it
\* and, while it is below sampling_size, keep every sample it held.
C36_NoAgeNoPurgeNoWakeup ==
    [][ (samples_max_age = NoAge)
            => /\ timers' = { }
               /\ update_listener' = NoHandle
               /\ (last'.op \notin { "listener", "backfill" })
                     => (states' = states /\ ages' = ages)
               /\ Len(states') >= Len(states)
               /\ (Len(states') < samples_max_buffer_size)
                     => /\ SubSeq(states', 1, Len(states)) = states
                        /\ SubSeq(ages', 1, Len(ages)) = ages ]_vars

\* Without max_age a recompute at the end of the clock's range has left a
\* full buffer whose front sample is older than any max_age of the model.
C36_Witness ==
    /\ samples_max_age = NoAge
    /\ last.op = "update"
    /\ Len(states) = MaxBuf
    /\ now - ages[1] > MaxAgeCfg
    /\ timers = { }

\* The value a payload gives a key: None when the payload carries errors, has
\* no live measurement, or has none for the key.
RtValue(d, key) ==
    IF d.errors \/ d.live = None THEN None
    ELSE IF key \in DOMAIN d.live[1] THEN d.live[1][key] ELSE None

\* C37: no key is added before the first update; an update handled by
\* _add_sensors adds exactly the keys not yet added whose value in the
\* payload is not missing, so a payload with errors or without live
\* measurement adds none and a key with a missing value stays out; no other
\* step adds; and every key has one entity if it is added and none if not.
C37_OneEntityPerKey ==
    /\ added_sensors = { }
    /\ rt_entities = << >>
    /\ [][ /\ IF last'.op = "rt_update" /\ device_updates_handler
                 THEN \A key \in ModelRtKeys :
                         (key \in added_sensors')
                             <=> (key \in added_sensors \/ RtValue(rt_data', key) # None)
                 ELSE added_sensors' = added_sensors /\ rt_entities' = rt_entities
           /\ \A key \in ModelRtKeys :
                 Cardinality({ i \in 1 .. Len(rt_entities') :
                                 rt_entities'[i].key = key })
                     = IF key \in added_sensors' THEN 1 ELSE 0 ]_vars

\* Two keys were added by different updates, the later one first in
\* RT_SENSORS, and the latest update repeated a value of an added key while
\* the third key is still missing.
C37_Witness ==
    /\ last.op = "rt_update"
    /\ Len(rt_entities) = 2
    /\ rt_entities[1].key = RT_SENSORS[2]
    /\ rt_entities[2].key = RT_SENSORS[1]
    /\ RtValue(rt_data, RT_SENSORS[2]) # None
    /\ RtValue(rt_data, RT_SENSORS[3]) = None
    /\ added_sensors = { RT_SENSORS[1], RT_SENSORS[2] }

====
